---- MODULE Spec2Model ----
(***************************************************************************)
(* Model of src/Mod/Path/PathScripts/PathSanity.py: the Path_Sanity        *)
(* command (CommandPathSanity).  Activated summarizes a Job into a mapping *)
(* of sections, renders the mapping into setupreport.asciidoc, runs the    *)
(* asciidoctor converter and opens the HTML in the browser.                *)
(*                                                                         *)
(* Python dictionaries are functions over strings (EmptyDict, Put), lists  *)
(* are sequences.  A formatted string is the record of its format and its  *)
(* argument; str(x) of a value with no literal here is the record Str(x).  *)
(* The command runs on the host's main thread: one Activated at a time,    *)
(* stepping through pc; an exception is a value returned by the operator   *)
(* that models the raising code.                                           *)
(***************************************************************************)
EXTENDS Integers, Sequences, FiniteSets, TLC

\* ---------------------------------------------------------------- bounds
MaxTC == 2            \* ToolControllers of a job
MaxOps == 2           \* operations of a job
MaxRuns == 2          \* Activated runs of the repeated-run jobs
MaxUserSquawks == 1   \* squawk calls made by code other than the summarizers
MaxFaults == 2        \* host/OS calls that raise during one behaviour

\* ---------------------------------------------------------------- values
None == "None"
EmptyDict == [k \in {} |-> k]
Put(d, k, v) == [x \in (DOMAIN d) \cup {k} |-> IF x = k THEN v ELSE d[x]]
Has(d, k) == k \in DOMAIN d
HasAll(d, ks) == ks \subseteq DOMAIN d
Str(x) == [str |-> x]
Format(fmt, arg) == [fmt |-> fmt, arg |-> arg]

RECURSIVE SeqToSet(_)
SeqToSet(s) == IF s = <<>> THEN {} ELSE {Head(s)} \cup SeqToSet(Tail(s))

SeqsUpTo(S, n) == UNION {[1..k -> S] : k \in 0..n}

\* The Label of the ToolController and of the operation at each place of
\* obj.ToolController and obj.Operations.Group.
TCLabels == <<"TC1", "TC2", "TC3", "TC4">>
OpLabels == <<"Op1", "Op2", "Op3", "Op4">>

\* The objects of the document: the Job, its Model group, its Stock and its
\* Operations group (obj, obj.Model, obj.Stock, obj.Operations).
DocumentObjects == {"Job", "Model", "Stock", "Operations"}

\* squawk's default for date, datetime.now() evaluated once when the class
\* body is executed (the module's import), at clock 0.
DefaultDate == 0

\* str() of the small integers and of the float 0.0.
Digits == <<"1", "2", "3", "4", "5", "6", "7", "8", "9">>
StrInt(n) == IF n = 0 THEN "0" ELSE Digits[n]
StrFloat(x) == IF x = 0 THEN "0.0" ELSE Str(x)

\* ---------------------------------------------------------------- jobs
\* A ToolController: its ToolNumber, whether its Tool is a new-style tool
\* bit (has the BitBody attribute), the tool's BitShape, HorizFeed.Value and
\* SpindleSpeed.  Its Label and Name are TCLabels[i], i its place in
\* obj.ToolController.
TC(n, bitBody, shape, feed, speed) ==
    [ToolNumber |-> n, BitBody |-> bitBody, BitShape |-> shape,
     HorizFeed |-> feed, SpindleSpeed |-> speed]

TCKinds ==
    {TC(1, TRUE, "endmill.fcstd", 100, 1000), TC(1, TRUE, "drill.fcstd", 100, 1000),
     TC(2, TRUE, "endmill.fcstd", 100, 1000), TC(2, TRUE, "drill.fcstd", 0, 0),
     TC(1, TRUE, "endmill.fcstd", 0, 0), TC(1, FALSE, "endmill.fcstd", 0, 0),
     TC(1, TRUE, "endmill.fcstd", 0, 1000), TC(1, TRUE, "endmill.fcstd", 100, 0)}

\* An operation: Active, whether it has the CoolantMode attribute, the
\* place of its ToolController in obj.ToolController (0: none of them), and
\* whether it is a PathStop.Stop with Stop set.  Its Label is OpLabels[i].
Op(active, coolant, tc, stop) ==
    [Active |-> active, hasCoolantMode |-> coolant, tc |-> tc, Stop |-> stop]

OpKinds ==
    {Op(a, c, 1, FALSE) : a \in BOOLEAN, c \in BOOLEAN}
    \cup {Op(TRUE, FALSE, 0, TRUE)}

\* A job: its ToolControllers, its Operations.Group, LastPostProcessOutput
\* ("" when the job was never post-processed) and the name of the stock's
\* material (None when the Stock has no Material).
Job(tcs, ops, output, material) ==
    [ToolController |-> tcs, Operations |-> ops,
     LastPostProcessOutput |-> output, Material |-> material]

DefaultTCs == <<TC(1, TRUE, "endmill.fcstd", 100, 1000)>>
DefaultOps == <<Op(TRUE, TRUE, 1, FALSE)>>
AllVisible == [o \in DocumentObjects |-> TRUE]

ToolJobs == {Job(tcs, DefaultOps, "job.nc", "Steel") : tcs \in SeqsUpTo(TCKinds, MaxTC)}
OpJobs == {Job(DefaultTCs, ops, "job.nc", "Steel") : ops \in SeqsUpTo(OpKinds, MaxOps)}
OutputJobs ==
    {Job(DefaultTCs, DefaultOps, out, m) : out \in {"", "job.nc"}, m \in {None, "Steel"}}

\* The jobs run repeatedly: one whose report renders without an advisory
\* from the summarizers, one whose summarizers record advisories.
CleanJob == Job(DefaultTCs, DefaultOps, "job.nc", "Steel")
SquawkingJob == Job(<<TC(1, TRUE, "endmill.fcstd", 0, 0)>>, <<>>, "", None)
RepeatedJobs == {CleanJob, SquawkingJob}

\* The initial situations: a job, the Visibility of the document's objects,
\* and how many Activated runs, outside squawk calls and raising host calls
\* are followed.
Situation(j, v, runs, squawks, faults) ==
    [job |-> j, Visibility |-> v, runs |-> runs, squawks |-> squawks,
     faults |-> faults]

Situations ==
    {Situation(j, AllVisible, 1, 0, MaxFaults) :
        j \in ToolJobs \cup OpJobs \cup OutputJobs}
    \cup {Situation(CleanJob, v, 1, 0, MaxFaults) : v \in [DocumentObjects -> BOOLEAN]}
    \cup {Situation(j, AllVisible, MaxRuns, MaxUserSquawks, MaxFaults - 1) :
            j \in RepeatedJobs}

\* ---------------------------------------------------------------- squawk
SquawkTypes == {"NOTE", "WARNING", "ERROR", "TIP"}

\* The arguments of one squawk call; date and squawkType are <<>> when the
\* caller leaves them to their defaults, <<value>> when it passes them.
SquawkCall(operator, note, date, squawkType) ==
    [operator |-> operator, note |-> note, date |-> date, squawkType |-> squawkType]

\* squawk with the new item put first in the list.
squawkPrepend(items, c) ==
    LET date == IF c.date = <<>> THEN DefaultDate ELSE c.date[1]
        given == IF c.squawkType = <<>> THEN "NOTE" ELSE c.squawkType[1]
        squawkType == IF given \in SquawkTypes THEN given ELSE "NOTE"
    IN  <<[Date |-> Str(date), Operator |-> c.operator,
           Note |-> c.note, squawkType |-> squawkType]>> \o items

\* squawk without line 419: the severity is stored as it was supplied.
squawkUnchecked(items, c) ==
    LET date == IF c.date = <<>> THEN DefaultDate ELSE c.date[1]
        given == IF c.squawkType = <<>> THEN "NOTE" ELSE c.squawkType[1]
    IN  Append(items, [Date |-> Str(date), Operator |-> c.operator,
                       Note |-> c.note, squawkType |-> given])

\* squawk on a list that is made anew at each call.
squawkFresh(items, c) ==
    LET date == IF c.date = <<>> THEN DefaultDate ELSE c.date[1]
        given == IF c.squawkType = <<>> THEN "NOTE" ELSE c.squawkType[1]
        squawkType == IF given \in SquawkTypes THEN given ELSE "NOTE"
    IN  <<[Date |-> Str(date), Operator |-> c.operator,
           Note |-> c.note, squawkType |-> squawkType]>>

\* squawk with a default date taken at each call, never twice the same.
squawkDateAtCall(items, c) ==
    LET date == IF c.date = <<>> THEN Len(items) + 1 ELSE c.date[1]
        given == IF c.squawkType = <<>> THEN "NOTE" ELSE c.squawkType[1]
        squawkType == IF given \in SquawkTypes THEN given ELSE "NOTE"
    IN  Append(items, [Date |-> Str(date), Operator |-> c.operator,
                       Note |-> c.note, squawkType |-> squawkType])

\* def squawk(self, operator, note, date=datetime.now(), squawkType="NOTE")
\* on the list self.squawkData['items'].
squawk(items, c) ==
    LET date == IF c.date = <<>> THEN DefaultDate ELSE c.date[1]
        given == IF c.squawkType = <<>> THEN "NOTE" ELSE c.squawkType[1]
        squawkType == IF given \in SquawkTypes THEN given ELSE "NOTE"
    IN  Append(items, [Date |-> Str(date), Operator |-> c.operator,
                       Note |-> c.note, squawkType |-> squawkType])

\* The calls of a summarizer, applied in the order it makes them.
RECURSIVE squawkAll(_, _)
squawkAll(items, calls) ==
    IF calls = <<>> THEN items
    ELSE squawkAll(squawk(items, Head(calls)), Tail(calls))

\* ---------------------------------------------------------------- pictures
\* __makePicture(obj, imageName) on the Visibility v of the document's
\* objects; captured is whether every call between hiding the objects and
\* the restore loop returns (FALSE: one of them raises).
makePicture(v, obj, imageName, captured) ==
    LET visible == {o \in DocumentObjects : v[o]}
        hidden == [o \in DocumentObjects |-> o = obj]
        restored == [o \in DocumentObjects |->
                        IF o \in visible THEN TRUE
                        ELSE IF o = obj THEN FALSE ELSE hidden[o]]
    IN  IF captured
        THEN [Visibility |-> restored, raised |-> FALSE,
              result |-> Format("{}_t.png", imageName)]
        ELSE [Visibility |-> hidden, raised |-> TRUE, result |-> None]

\* ---------------------------------------------------------------- summarizers
\* except Exception as e: data['errors'] = e
Except(data, e) == Put(data, "errors", e)

\* A summarizer without its handler: the exception leaves it.
SummaryPropagates(data, calls, v) ==
    [data |-> data, calls |-> calls, Visibility |-> v,
     escaped |-> Has(data, "errors")]

\* Every summarizer returns its mapping (data), the squawk calls it made
\* (calls), the Visibility it leaves (Visibility) and whether an exception
\* escapes it (escaped; the handlers catch Exception, so never).
Summary(data, calls, v) ==
    [data |-> data, calls |-> calls, Visibility |-> v, escaped |-> FALSE]

baseObjectData(j, v, captured) ==
    LET bases == [name \in {"Body"} |-> StrInt(1)]
        pic == makePicture(v, "Model", "baseimage", captured)
    IN  IF pic.raised
        THEN Summary(Except(EmptyDict, "RuntimeError"), <<>>, pic.Visibility)
        ELSE Summary(Put(Put(EmptyDict, "baseimage", pic.result), "bases", bases),
                     <<>>, pic.Visibility)

designData(j, v) ==
    Summary([FileName |-> "part.FCStd", LastModifiedDate |-> Str("saved"),
             Customer |-> "Company", Designer |-> "Author",
             JobNotes |-> "Description", JobLabel |-> "Job",
             Sequence |-> Format("{} of {}", <<1, 1>>),
             JobType |-> "2.5D Milling"], <<>>, v)

\* The places of __toolData where a call into the host or the file system
\* may raise: Tool.Proxy.getBitThumbnail (line 502) and open(imagepath, 'wb')
\* (line 516) of the ToolController at place `at`; NoFault: none raises.
NoFault == [at |-> 0, step |-> "none"]
ToolFaults(j) ==
    {[at |-> i, step |-> st] :
        i \in {k \in 1..Len(j.ToolController) : j.ToolController[k].BitBody},
        st \in {"getBitThumbnail", "open"}}

\* tooldata.setdefault(key, default)
SetDefault(d, k, default) == IF Has(d, k) THEN d ELSE Put(d, k, default)

\* The operations of the job that use the ToolController at place i, as the
\* rows appended to tooldata['ops'] (lines 522-529).
RECURSIVE OpsUsing(_, _, _)
OpsUsing(j, i, k) ==
    IF k > Len(j.Operations) THEN <<>>
    ELSE (IF j.Operations[k].tc = i
          THEN <<[Operation |-> OpLabels[k], ToolController |-> TCLabels[i],
                  Feed |-> Str(j.ToolController[i].HorizFeed),
                  Speed |-> Str(j.ToolController[i].SpindleSpeed)]>>
          ELSE <<>>) \o OpsUsing(j, i, k + 1)

\* Line 505, TC.HorizFeed.Value == 0.0.
hasNoFeedrate(tc) == tc.HorizFeed = 0

\* Line 511 with the comparison turned round.
hasNoSpindleSpeedInverted(tc) == tc.SpindleSpeed # 0

\* Line 511, TC.SpindleSpeed == 0.0.
hasNoSpindleSpeed(tc) == tc.SpindleSpeed = 0

\* The body of the loop `for TC in obj.ToolController` (lines 484-535) from
\* the ToolController at place i on, with the mapping and the squawk calls
\* made so far.
RECURSIVE toolLoop(_, _, _, _, _)
toolLoop(j, i, data, calls, fault) ==
    IF i > Len(j.ToolController) THEN [data |-> data, calls |-> calls]
    ELSE
    LET tc == j.ToolController[i]
        key == StrInt(tc.ToolNumber)
        t0 == SetDefault(IF Has(data, key) THEN data[key] ELSE EmptyDict,
                         "BitShape", "")
        bitshape == t0["BitShape"]
        calls1 == IF bitshape \notin {"", tc.BitShape}
                  THEN Append(calls, SquawkCall("PathSanity",
                           Format("Tool number {} used by multiple tools", key),
                           <<>>, <<"ERROR">>))
                  ELSE calls
        t1 == Put(Put(Put(Put(Put(Put(Put(Put(t0,
                  "bitShape", tc.BitShape),
                  "description", Format("Tool of {}", TCLabels[i])),
                  "manufacturer", ""),
                  "url", ""),
                  "inspectionNotes", ""),
                  "diameter", Str("Diameter")),
                  "shape", Format("ShapeName of {}", tc.BitShape)),
                  "partNumber", "")
        t2 == Put(t1, "feedrate", Str(tc.HorizFeed))
        calls2 == IF hasNoFeedrate(tc)
                  THEN Append(calls1, SquawkCall("PathSanity",
                           Format("Tool Controller '{}' has no feedrate", TCLabels[i]),
                           <<>>, <<"WARNING">>))
                  ELSE calls1
        t3 == Put(t2, "spindlespeed", Str(tc.SpindleSpeed))
        calls3 == IF hasNoSpindleSpeed(tc)
                  THEN Append(calls2, SquawkCall("PathSanity",
                           Format("Tool Controller '{}' has no spindlespeed", TCLabels[i]),
                           <<>>, <<"WARNING">>))
                  ELSE calls2
        t4 == Put(t3, "imagepath", Format("T{}.png", key))
        using == OpsUsing(j, i, 1)
        used == using # <<>>
        t5 == Put(t4, "ops", (IF Has(t4, "ops") THEN t4["ops"] ELSE <<>>) \o using)
        calls4 == IF ~used
                  THEN Append(calls3, SquawkCall("PathSanity",
                           Format("Tool Controller '{}' is not used", TCLabels[i]),
                           <<>>, <<"WARNING">>))
                  ELSE calls3
    IN  IF ~tc.BitBody THEN toolLoop(j, i + 1, data, calls, fault)
        ELSE IF fault = [at |-> i, step |-> "getBitThumbnail"]
        THEN [data |-> Except(Put(data, key, t1), "ThumbnailError"), calls |-> calls1]
        ELSE IF fault = [at |-> i, step |-> "open"]
        THEN [data |-> Except(Put(data, key, t3), "IOError"), calls |-> calls3]
        ELSE toolLoop(j, i + 1, Put(data, key, t5), calls4, fault)

toolData(j, v, fault) ==
    LET r == toolLoop(j, 1, EmptyDict, <<>>, fault)
    IN  Summary(r.data, r.calls, v)

\* The rows of __runData and __coolantData name an operation by its label,
\* suffixed " (INACTIVE)" when it is not active.
OpName(j, k) ==
    IF j.Operations[k].Active THEN Format("{}", OpLabels[k])
    ELSE Format("{} (INACTIVE)", OpLabels[k])

\* cycleTimes: whether the job and its operations have the CycleTime
\* property (a document of an older version has none, line 545 raises).
runData(j, v, cycleTimes) ==
    IF ~cycleTimes THEN Summary(Except(EmptyDict, "AttributeError"), <<>>, v)
    ELSE Summary([cycletotal |-> Str("CycleTime"),
                  jobMinZ |-> Str("ZMin"), jobMaxZ |-> Str("ZMax"),
                  items |-> [k \in 1..Len(j.Operations) |->
                               [opName |-> OpName(j, k), minZ |-> Str("ZMin"),
                                maxZ |-> Str("ZMax"), cycleTime |-> Str("CycleTime")]]],
                 <<>>, v)

\* The loop of __coolantData (lines 596-604) from operation k on.  An
\* operation has no attribute eCoolantMode: line 600 raises AttributeError.
RECURSIVE coolantLoop(_, _, _)
coolantLoop(j, k, data) ==
    IF k > Len(j.Operations) THEN data
    ELSE IF j.Operations[k].hasCoolantMode
    THEN Except(data, "AttributeError")
    ELSE coolantLoop(j, k + 1,
             Put(data, "items", Append(data["items"],
                 [opName |-> OpName(j, k), coolantMode |-> "N/A"])))

coolantData(j, v) == Summary(coolantLoop(j, 1, [items |-> <<>>]), <<>>, v)

\* Line 670 testing for None instead of the empty string.
notPostProcessedIsNone(j) == j.LastPostProcessOutput = None

\* Line 670, obj.LastPostProcessOutput == "".
notPostProcessed(j) == j.LastPostProcessOutput = ""

\* fileReadable: whether os.path.getsize and open of LastPostProcessOutput
\* return (FALSE: the file is gone, line 675 raises).
outputData(j, v, fileReadable) ==
    LET d0 == [lastpostprocess |-> Str("LastPostProcessDate"),
               lastgcodefile |-> Str(j.LastPostProcessOutput),
               optionalstops |->
                   IF \E k \in 1..Len(j.Operations) : j.Operations[k].Stop
                   THEN "True" ELSE "False",
               programmer |-> "", machine |-> "",
               postprocessor |-> Str("PostProcessor"),
               postprocessorFlags |-> Str("PostProcessorArgs")]
    IN  IF notPostProcessed(j)
        THEN Summary(Put(Put(d0, "filesize", StrFloat(0)), "linecount", StrInt(0)),
                     <<SquawkCall("PathSanity",
                           Format("The Job has not been post-processed", ""),
                           <<>>, <<>>)>>, v)
        ELSE IF ~fileReadable THEN Summary(Except(d0, "OSError"), <<>>, v)
        ELSE Summary(Put(Put(d0, "filesize", StrInt(7)), "linecount", StrInt(3)),
                     <<>>, v)

\* captured: whether every call between hiding the Job and showing it again
\* (lines 623-641) returns.
fixtureData(j, v, captured) ==
    LET d0 == [fixtures |-> Str("Fixtures"), orderBy |-> Str("OrderOutputBy")]
        hidden == [v EXCEPT !["Job"] = FALSE, !["Operations"] = FALSE]
        shown == [hidden EXCEPT !["Job"] = TRUE, !["Operations"] = TRUE]
    IN  IF ~captured THEN Summary(Except(d0, "RuntimeError"), <<>>, hidden)
        ELSE Summary(Put(d0, "datumImage", Format("{}_t.png", "origin")), <<>>, shown)

stockData(j, v, captured) ==
    LET material == IF j.Material # None THEN j.Material ELSE "Not Specified"
        d0 == [xLen |-> Str("XLength"), yLen |-> Str("YLength"),
               zLen |-> Str("ZLength"), material |-> material]
        calls == IF material = "Not Specified"
                 THEN <<SquawkCall("PathSanity",
                          Format("Consider Specifying the Stock Material", ""),
                          <<>>, <<"TIP">>)>>
                 ELSE <<>>
        pic == makePicture(v, "Stock", "stockImage", captured)
    IN  IF pic.raised
        THEN Summary(Except(d0, "RuntimeError"), calls, pic.Visibility)
        ELSE Summary(Put(d0, "stockImage", pic.result), calls, pic.Visibility)

\* The order in which __summarize fills the sections (lines 407-415).
Sections ==
    <<"baseData", "designData", "toolData", "runData", "coolantData",
      "outputData", "fixtureData", "stockData", "squawkData">>
Summarizers == SubSeq(Sections, 1, 8)

\* ---------------------------------------------------------------- report
\* The keys __report reads of each section; d[key] of a missing key raises
\* KeyError, value[key] of the exception stored under toolData's 'errors'
\* raises TypeError.
ToolKeys ==
    {"description", "imagepath", "manufacturer", "partNumber", "url",
     "inspectionNotes", "shape", "diameter", "ops"}

reportRaises(data) ==
    \/ ~HasAll(data["designData"],
               {"JobLabel", "Sequence", "JobType", "FileName",
                "LastModifiedDate", "Customer", "Designer"})
    \/ ~HasAll(data["baseData"], {"bases", "baseimage"})
    \/ ~HasAll(data["runData"], {"items", "jobMinZ", "jobMaxZ", "cycletotal"})
    \/ \E key \in DOMAIN data["toolData"] :
          key = "errors" \/ ~HasAll(data["toolData"][key], ToolKeys)
    \/ ~HasAll(data["stockData"], {"material", "stockImage", "xLen", "yLen", "zLen"})
    \/ ~HasAll(data["fixtureData"], {"fixtures", "orderBy", "datumImage"})
    \/ \E k \in 1..Len(data["coolantData"]["items"]) :
          ~HasAll(data["coolantData"]["items"][k], {"opName", "CoolantMode"})
    \/ ~HasAll(data["outputData"],
               {"lastgcodefile", "lastpostprocess", "optionalstops", "programmer",
                "machine", "postprocessor", "postprocessorFlags", "filesize",
                "linecount"})

\* One row of the Squawks table (lines 363-367).
squawkRow(i) ==
    [Note |-> Format("a|{}: {}", <<i.squawkType, i.Note>>),
     Operator |-> Format("|{}", i.Operator), Date |-> Format("|{}", i.Date)]

\* The markup of the report (lines 186-380): the job's name and the rows of
\* each table, the header row first where the table has one.
reportText(data) ==
    [jobname |-> data["designData"]["JobLabel"],
     infoTable |-> <<data["baseData"], data["designData"]>>,
     runTable |-> <<"header">> \o data["runData"]["items"] \o <<"TOTAL JOB">>,
     toolTables |-> data["toolData"],
     stockTable |-> data["stockData"],
     fixtureTable |-> data["fixtureData"],
     coolantTable |->
         <<"header">> \o
         [k \in 1..Len(data["coolantData"]["items"]) |->
             [opName |-> data["coolantData"]["items"][k]["opName"],
              CoolantMode |-> data["coolantData"]["items"][k]["CoolantMode"]]],
     outTable |-> data["outputData"],
     squawkTable |->
         <<"header">> \o
         [k \in 1..Len(data["squawkData"]["items"]) |->
             squawkRow(data["squawkData"]["items"][k])]]

\* os.system's status when the shell does not find asciidoctor (line 392).
NotFound == 32512

\* What the converter call does: returns an exit status, or raises.
ConverterOutcomes ==
    {[raised |-> FALSE, status |-> st] : st \in {0, NotFound, 256}}
    \cup {[raised |-> TRUE, status |-> 0]}

\* Lines 392-394 comparing with the shell's own not-found status.
reporthtmlWrongStatus(outcome) ==
    IF ~outcome.raised /\ outcome.status = 127 THEN None
    ELSE "setupreport.html"

\* The value of reporthtml after the try statement (lines 390-397).
reporthtml(outcome) ==
    IF ~outcome.raised /\ outcome.status = NotFound THEN None
    ELSE "setupreport.html"

\* ---------------------------------------------------------------- state
VARIABLES
    job,          \* the selected Job (FreeCADGui.Selection), fixed
    Visibility,   \* o.Visibility of the document's objects
    squawkData,   \* CommandPathSanity.squawkData['items'], the class's list
    data,         \* __summarize's mapping of the running Activated
    pc,           \* where the command is: "idle", or the step to take next
    asciidoc,     \* setupreport.asciidoc: <<>> before any, <<its content>>
    htmlFile,     \* whether setupreport.html exists
    html,         \* the value __report returned to the running Activated
    converter,    \* what the converter call of the running Activated did
    opened,       \* whether the running Activated called webbrowser.open
    exit,         \* how the last Activated ended: "returned", "exception"
    now,          \* the clock
    runsLeft, squawksLeft, faultsLeft,   \* what is left of the bounds
    calls,        \* history: the arguments of every squawk call so far
    invoked,      \* history: the summarizers the running __summarize called
    hit,          \* history: the summarizers of this run that hit an exception
    picBefore,    \* history: Visibility when __makePicture was last entered
    before,       \* history: the length of the list when the last summarizer began
    toolFault,    \* history: the call of the last __toolData that raised
    clean         \* history: each section's first mapping computed cleanly

vars ==
    <<job, Visibility, squawkData, data, pc, asciidoc, htmlFile, html, converter,
      opened, exit, now, runsLeft, squawksLeft, faultsLeft, calls, invoked, hit,
      picBefore, before, toolFault, clean>>

NoOutcome == [raised |-> FALSE, status |-> -1]

Init ==
    \E s \in Situations :
        /\ job = s.job
        /\ Visibility = s.Visibility
        /\ runsLeft = s.runs
        /\ squawksLeft = s.squawks
        /\ faultsLeft = s.faults
        /\ squawkData = <<>>
        /\ data = EmptyDict
        /\ pc = "idle"
        /\ asciidoc = <<>>
        /\ htmlFile = FALSE
        /\ html = None
        /\ converter = NoOutcome
        /\ opened = FALSE
        /\ exit = "none"
        /\ now = 1
        /\ calls = <<>>
        /\ invoked = <<>>
        /\ hit = {}
        /\ picBefore = s.Visibility
        /\ before = 0
        /\ toolFault = NoFault
        /\ clean = EmptyDict

\* Whether a host call may be made to raise: the calls that return (TRUE),
\* and, while the bound allows, the call that raises (FALSE).
Returns == {TRUE} \cup (IF faultsLeft > 0 THEN {FALSE} ELSE {})
Spend(ok) == faultsLeft' = IF ok THEN faultsLeft ELSE faultsLeft - 1

\* The step after a summarizer of __summarize, in the order of lines 407-415.
NextStep(section) ==
    CASE section = "baseData" -> "designData"
      [] section = "designData" -> "toolData"
      [] section = "toolData" -> "runData"
      [] section = "runData" -> "coolantData"
      [] section = "coolantData" -> "outputData"
      [] section = "outputData" -> "fixtureData"
      [] section = "fixtureData" -> "stockData"
      [] section = "stockData" -> "squawkData"

\* data[section] = self.__xData(obj): the summarizer's mapping is stored,
\* its squawk calls have appended to the list, and __summarize goes on
\* unless an exception escaped the summarizer.
Store(section, r, raisedHere) ==
    /\ data' = Put(data, section, r.data)
    /\ squawkData' = squawkAll(squawkData, r.calls)
    /\ calls' = calls \o r.calls
    /\ Visibility' = r.Visibility
    /\ invoked' = Append(invoked, section)
    /\ before' = Len(squawkData)
    /\ hit' = IF raisedHere THEN hit \cup {section} ELSE hit
    /\ clean' = IF ~raisedHere /\ ~Has(clean, section)
                THEN Put(clean, section, r.data) ELSE clean
    /\ pc' = IF r.escaped THEN "idle" ELSE NextStep(section)
    /\ exit' = IF r.escaped THEN "exception" ELSE exit
    /\ UNCHANGED <<job, asciidoc, htmlFile, html, converter, opened, now,
                   runsLeft, squawksLeft>>

\* Activated, lines 73-74: the selected job is about to be summarized.
Activated ==
    /\ pc = "idle"
    /\ runsLeft > 0
    /\ runsLeft' = runsLeft - 1
    /\ pc' = "baseData"
    /\ data' = EmptyDict
    /\ html' = None
    /\ converter' = NoOutcome
    /\ opened' = FALSE
    /\ exit' = "running"
    /\ invoked' = <<>>
    /\ hit' = {}
    /\ now' = now + 1
    /\ UNCHANGED <<job, Visibility, squawkData, asciidoc, htmlFile, squawksLeft,
                   faultsLeft, calls, picBefore, before, toolFault, clean>>

BaseObjectData ==
    /\ pc = "baseData"
    /\ \E captured \in Returns :
          /\ Store("baseData", baseObjectData(job, Visibility, captured), ~captured)
          /\ Spend(captured)
    /\ picBefore' = Visibility
    /\ UNCHANGED toolFault

DesignData ==
    /\ pc = "designData"
    /\ Store("designData", designData(job, Visibility), FALSE)
    /\ UNCHANGED <<faultsLeft, picBefore, toolFault>>

ToolData ==
    /\ pc = "toolData"
    /\ \E fault \in {NoFault} \cup (IF faultsLeft > 0 THEN ToolFaults(job) ELSE {}) :
          /\ Store("toolData", toolData(job, Visibility, fault), fault # NoFault)
          /\ Spend(fault = NoFault)
          /\ toolFault' = fault
    /\ UNCHANGED picBefore

RunData ==
    /\ pc = "runData"
    /\ \E cycleTimes \in Returns :
          /\ Store("runData", runData(job, Visibility, cycleTimes), ~cycleTimes)
          /\ Spend(cycleTimes)
    /\ UNCHANGED <<picBefore, toolFault>>

CoolantData ==
    /\ pc = "coolantData"
    /\ Store("coolantData", coolantData(job, Visibility),
             \E k \in 1..Len(job.Operations) : job.Operations[k].hasCoolantMode)
    /\ UNCHANGED <<faultsLeft, picBefore, toolFault>>

OutputData ==
    /\ pc = "outputData"
    /\ \E fileReadable \in
           (IF job.LastPostProcessOutput = "" THEN {TRUE} ELSE Returns) :
          /\ Store("outputData", outputData(job, Visibility, fileReadable),
                   ~fileReadable)
          /\ Spend(fileReadable)
    /\ UNCHANGED <<picBefore, toolFault>>

FixtureData ==
    /\ pc = "fixtureData"
    /\ \E captured \in Returns :
          /\ Store("fixtureData", fixtureData(job, Visibility, captured), ~captured)
          /\ Spend(captured)
    /\ UNCHANGED <<picBefore, toolFault>>

StockData ==
    /\ pc = "stockData"
    /\ \E captured \in Returns :
          /\ Store("stockData", stockData(job, Visibility, captured), ~captured)
          /\ Spend(captured)
    /\ picBefore' = Visibility
    /\ UNCHANGED toolFault

\* Line 415, data['squawkData'] = self.squawkData, and __summarize returns.
\* The section is the class's own dictionary; nothing appends to the list
\* until __report has read it.
SquawkData ==
    /\ pc = "squawkData"
    /\ data' = Put(data, "squawkData", [items |-> squawkData])
    /\ pc' = "report"
    /\ UNCHANGED <<job, Visibility, squawkData, asciidoc, htmlFile, html, converter,
                   opened, exit, now, runsLeft, squawksLeft, faultsLeft, calls,
                   invoked, hit, picBefore, before, toolFault, clean>>

\* __report, lines 186-388: the markup is rendered and written, unless a
\* read of the mapping raises, which ends Activated with the exception.
Report ==
    /\ pc = "report"
    /\ IF reportRaises(data)
       THEN /\ pc' = "idle"
            /\ exit' = "exception"
            /\ asciidoc' = asciidoc
       ELSE /\ pc' = "converter"
            /\ exit' = exit
            /\ asciidoc' = <<reportText(data)>>
    /\ UNCHANGED <<job, Visibility, squawkData, data, htmlFile, html, converter,
                   opened, now, runsLeft, squawksLeft, faultsLeft, calls, invoked,
                   hit, picBefore, before, toolFault, clean>>

\* __report, lines 390-399: the converter is run and reporthtml returned.
Converter ==
    /\ pc = "converter"
    /\ \E outcome \in ConverterOutcomes :
          /\ converter' = outcome
          /\ html' = reporthtml(outcome)
          /\ htmlFile' = (htmlFile \/ (~outcome.raised /\ outcome.status = 0))
    /\ pc' = "browser"
    /\ UNCHANGED <<job, Visibility, squawkData, data, asciidoc, opened, exit, now,
                   runsLeft, squawksLeft, faultsLeft, calls, invoked, hit,
                   picBefore, before, toolFault, clean>>

\* Activated, lines 76-78.
Browser ==
    /\ pc = "browser"
    /\ opened' = (html # None)
    /\ pc' = "idle"
    /\ exit' = "returned"
    /\ UNCHANGED <<job, Visibility, squawkData, data, asciidoc, htmlFile, html,
                   converter, now, runsLeft, squawksLeft, faultsLeft, calls, invoked,
                   hit, picBefore, before, toolFault, clean>>

\* The squawk calls of other code at time t: with each severity, valid or
\* not, and the default date; and with the default severity and a date.
UserCalls(t) ==
    {SquawkCall("user", Format("user note", ""), <<>>, <<st>>) :
        st \in SquawkTypes \cup {"BOGUS"}}
    \cup {SquawkCall("user", Format("user note", ""), <<t>>, <<>>)}

\* A call of squawk by other code of the host, between two commands.
UserSquawk ==
    /\ pc = "idle"
    /\ squawksLeft > 0
    /\ squawksLeft' = squawksLeft - 1
    /\ \E c \in UserCalls(now) :
          /\ squawkData' = squawk(squawkData, c)
          /\ calls' = Append(calls, c)
    /\ now' = now + 1
    /\ UNCHANGED <<job, Visibility, data, pc, asciidoc, htmlFile, html, converter,
                   opened, exit, runsLeft, faultsLeft, invoked, hit, picBefore,
                   before, toolFault, clean>>

Next ==
    \/ Activated
    \/ BaseObjectData
    \/ DesignData
    \/ ToolData
    \/ RunData
    \/ CoolantData
    \/ OutputData
    \/ FixtureData
    \/ StockData
    \/ SquawkData
    \/ Report
    \/ Converter
    \/ Browser
    \/ UserSquawk

Spec == Init /\ [][Next]_vars

\* ---------------------------------------------------------------- properties
\* The last Activated has ended, by returning or by an exception.
Ended == pc = "idle" /\ exit \in {"returned", "exception"}
\* __report of the running Activated has returned.
Reported == pc = "browser" \/ (pc = "idle" /\ exit = "returned")
Succeeded(outcome) == ~outcome.raised /\ outcome.status = 0
Absent(outcome) == ~outcome.raised /\ outcome.status = NotFound

\* The items the last summarizer appended to the list.
Appended == SubSeq(squawkData, before + 1, Len(squawkData))
Count(items, P(_)) == Cardinality({k \in 1..Len(items) : P(items[k])})

\* C1: every Activated ends by returning, no exception escapes it, and
\* setupreport.asciidoc has been written.
C1_ActivatedCompletes == Ended => (exit = "returned" /\ asciidoc # <<>>)

\* C2: __summarize never raises: the eight summarizers are all invoked, in
\* the fixed order, the mapping has all nine section keys, a summarizer that
\* hit an exception has an 'errors' entry, and every other section is the
\* mapping it is when nothing fails.
C2_SummarizeNeverRaises ==
    /\ invoked = SubSeq(Summarizers, 1, Len(invoked))
    /\ (pc = "idle" /\ exit # "none") => invoked = Summarizers
    /\ (pc \in {"report", "converter", "browser"} \/ Ended)
          => DOMAIN data = SeqToSet(Sections)
    /\ \A s \in (DOMAIN data) \ {"squawkData"} :
          /\ s \in hit => Has(data[s], "errors")
          /\ s \notin hit => (Has(clean, s) /\ data[s] = clean[s])

\* A run whose first summarizer failed, after a run in which it did not, has
\* summarized the last section.
C2_Witness ==
    /\ pc = "report"
    /\ "baseData" \in hit
    /\ Has(clean, "baseData")
    /\ ~Has(data["stockData"], "errors")

\* C3: when __makePicture has been left, by return or by exception, every
\* object's Visibility is what it was when the call began.
C3_VisibilityRestored ==
    pc \in {"designData", "squawkData"} => Visibility = picBefore

\* The tool numbers that two new-style ToolControllers of the job use with
\* different tool shapes.
Shared(j) ==
    {n \in 1..2 :
        \E a, b \in 1..Len(j.ToolController) :
            /\ j.ToolController[a].BitBody /\ j.ToolController[b].BitBody
            /\ j.ToolController[a].ToolNumber = n
            /\ j.ToolController[b].ToolNumber = n
            /\ j.ToolController[a].BitShape # j.ToolController[b].BitShape}

\* C4: after __toolData (nothing has raised in the run), every tool number used
\* by two new-style ToolControllers with different shapes has an ERROR
\* advisory "Tool number <n> ...".
C4_SharedNumberReported ==
    (pc = "runData" /\ hit = {}) =>
        \A n \in Shared(job) :
            \E k \in 1..Len(Appended) :
                /\ Appended[k].squawkType = "ERROR"
                /\ Appended[k].Note =
                       Format("Tool number {} used by multiple tools", StrInt(n))

\* C5: __report returns the HTML path, and Activated opens the browser, only
\* when the converter succeeded.
C5_HtmlOnlyOnSuccess ==
    Reported => (Succeeded(converter) \/ (html = None /\ ~opened))

\* C6: setupreport.asciidoc is written before the converter is invoked, and
\* when the converter is not found the file is still there and __report
\* returns None.
C6_ConverterAbsent ==
    /\ pc = "converter" => asciidoc = <<reportText(data)>>
    /\ (pc = "browser" /\ Absent(converter))
          => (asciidoc = <<reportText(data)>> /\ html = None)
    /\ (pc = "idle" /\ exit = "returned" /\ Absent(converter))
          => (asciidoc # <<>> /\ html = None /\ ~opened)

C6_Witness == pc = "browser" /\ Absent(converter) /\ ~htmlFile

\* The advisory a squawk call is to record: its severity (NOTE when none or
\* an invalid one is supplied), note, operator and date (the default when
\* none is supplied), as the row of the table shows it.
SeverityOf(c) ==
    IF c.squawkType # <<>> /\ c.squawkType[1] \in {"NOTE", "WARNING", "ERROR", "TIP"}
    THEN c.squawkType[1] ELSE "NOTE"
DateOf(c) == IF c.date = <<>> THEN DefaultDate ELSE c.date[1]
RowOf(c) ==
    [Note |-> Format("a|{}: {}", <<SeverityOf(c), c.note>>),
     Operator |-> Format("|{}", c.operator),
     Date |-> Format("|{}", Str(DateOf(c)))]

\* C7: after N squawk calls the rendered Squawks table has the header row
\* and N rows, row k that of the k-th call.
C7_TableRows ==
    pc = "converter" =>
        LET table == asciidoc[1].squawkTable
        IN  /\ Len(table) = Len(calls) + 1
            /\ \A k \in 1..Len(calls) : table[k + 1] = RowOf(calls[k])

\* A report rendered after a call from outside and calls of the summarizers.
C7_Witness ==
    /\ pc = "converter"
    /\ Len(calls) >= 3
    /\ \E k, m \in 1..Len(calls) :
          k < m /\ calls[k].operator = "user" /\ calls[m].operator = "PathSanity"

\* The advisories of __toolData about the ToolController at place i.
NoFeedrate(i) == Format("Tool Controller '{}' has no feedrate", TCLabels[i])
NoSpindleSpeed(i) == Format("Tool Controller '{}' has no spindlespeed", TCLabels[i])
Warnings(note) ==
    Count(Appended, LAMBDA item : item.squawkType = "WARNING" /\ item.Note = note)
Idle(tc) == tc.HorizFeed = 0 /\ tc.SpindleSpeed = 0

\* The loop of __toolData went through lines 505-514 for the ToolController
\* at place i: no call raised before them.
Processed(i) ==
    \/ toolFault = NoFault
    \/ i < toolFault.at
    \/ (i = toolFault.at /\ toolFault.step = "open")

NotPostProcessed(item) ==
    item.Note = Format("The Job has not been post-processed", "")

\* C9: with LastPostProcessOutput empty __outputData returns filesize "0.0"
\* and linecount "0" and appends exactly one advisory, a NOTE that the job
\* has not been post-processed; with it non-empty it appends no such
\* advisory.
C9_NotPostProcessed ==
    pc = "fixtureData" =>
        IF job.LastPostProcessOutput = ""
        THEN /\ Has(data["outputData"], "filesize")
             /\ data["outputData"]["filesize"] = "0.0"
             /\ Has(data["outputData"], "linecount")
             /\ data["outputData"]["linecount"] = "0"
             /\ Len(Appended) = 1
             /\ NotPostProcessed(Appended[1])
             /\ Appended[1].squawkType = "NOTE"
        ELSE Count(Appended, NotPostProcessed) = 0

C9_Witness ==
    /\ pc = "fixtureData"
    /\ job.LastPostProcessOutput = ""
    /\ Len(squawkData) = before + 1
    /\ before > 0

\* C10: every stored item's squawkType is one of the four severities: the
\* supplied one when it is one of them, NOTE for any other.
C10_SeverityNormalised ==
    /\ Len(squawkData) = Len(calls)
    /\ \A k \in 1..Len(squawkData) :
          /\ squawkData[k].squawkType \in {"NOTE", "WARNING", "ERROR", "TIP"}
          /\ calls[k].squawkType # <<>> =>
                squawkData[k].squawkType =
                    IF calls[k].squawkType[1] \in {"NOTE", "WARNING", "ERROR", "TIP"}
                    THEN calls[k].squawkType[1] ELSE "NOTE"

\* An invalid severity was supplied and NOTE stored; each valid severity
\* was supplied by some call.
C10_Witness ==
    /\ \E k \in 1..Len(calls) :
          calls[k].squawkType = <<"BOGUS">> /\ squawkData[k].squawkType = "NOTE"
    /\ \E k \in 1..Len(calls) :
          calls[k].squawkType = <<"WARNING">> /\ squawkData[k].squawkType = "WARNING"

\* C11: the list is append-only: no step makes it shorter or changes the item
\* at an index, whichever run or outside call takes the step, and the table
\* a run renders has the row of every item the list held, those of earlier
\* runs included.
C11_AppendOnly ==
    [][/\ Len(squawkData') >= Len(squawkData)
       /\ \A k \in 1..Len(squawkData) : squawkData'[k] = squawkData[k]
       /\ pc' = "converter" =>
              \A k \in 1..Len(squawkData) :
                  asciidoc'[1].squawkTable[k + 1] = squawkRow(squawkData[k])]_vars

\* A later run has rendered its report, and the list holds an advisory the
\* summarizers recorded in an earlier run and again in this one.
C11_Witness ==
    /\ pc = "converter"
    /\ runsLeft <= MaxRuns - 2
    /\ \E k, m \in 1..Len(squawkData) :
          /\ k < m
          /\ squawkData[k] = squawkData[m]
          /\ squawkData[k].Operator = "PathSanity"

\* C12: __fixtureData leaves the Visibility of the Job and of its Operations
\* group as it found them, whatever they were and whether the capture
\* returned or raised.
C12_FixtureVisibilityKept ==
    [][pc = "fixtureData" =>
          /\ Visibility'["Job"] = Visibility["Job"]
          /\ Visibility'["Operations"] = Visibility["Operations"]]_vars

\* C13: the mapping __coolantData returned has one item per operation of the
\* job, in the order of the operations, item k named after operation k
\* (suffixed " (INACTIVE)" when it is not active) and holding, under the key
\* 'CoolantMode' that __report reads, the operation's CoolantMode when it
\* has the attribute and "N/A" when it has none.
C13_CoolantItems ==
    pc = "outputData" =>
        /\ Has(data["coolantData"], "items")
        /\ Len(data["coolantData"]["items"]) = Len(job.Operations)
        /\ \A k \in 1..Len(job.Operations) :
              LET item == data["coolantData"]["items"][k]
              IN  /\ Has(item, "opName")
                  /\ item["opName"] = OpName(job, k)
                  /\ Has(item, "CoolantMode")
                  /\ item["CoolantMode"] =
                         IF job.Operations[k].hasCoolantMode
                         THEN Str("CoolantMode") ELSE "N/A"

\* C14: an advisory recorded without a date holds the one default date, fixed
\* when squawk was defined, which is the time of no call; the summarizers
\* never pass a date, so any two of their advisories hold the same Date,
\* whichever runs recorded them.
C14_DefaultDateFixed ==
    LET defaulted == {k \in 1..Len(calls) : calls[k].date = <<>>}
        summarizers == {k \in 1..Len(calls) : calls[k].operator = "PathSanity"}
        Dates(ks) == {squawkData[k].Date : k \in ks}
    IN  /\ summarizers \subseteq defaulted
        /\ Dates(defaulted) \subseteq {Str(DefaultDate)}
        /\ Dates(defaulted) \cap {Str(t) : t \in 1..now} = {}
        /\ Cardinality(Dates(summarizers)) <= 1

\* Two advisories of the summarizers recorded in different runs, and between
\* the runs a call from outside that passed the time of the call as date.
C14_Witness ==
    \E k, u, m \in 1..Len(squawkData) :
        /\ k < u /\ u < m
        /\ calls[k].operator = "PathSanity"
        /\ calls[m].operator = "PathSanity"
        /\ calls[u].operator = "user"
        /\ calls[u].date # <<>>
        /\ squawkData[u].Date # squawkData[k].Date
====
